---- MODULE Spec2Model ----
(***************************************************************************)
(* A model of charon's in-memory DutyDB (core/dutydb/memory.go): the four  *)
(* payload maps, the pubkey map, the slot->keys indexes, the four waiter   *)
(* lists, the mutex, the shutdown channel, and the deadliner the DB        *)
(* consumes expirations from. The callers of one run exercise one payload  *)
(* kind (scope) and make MaxOps calls of the DB's methods in all.          *)
(***************************************************************************)
EXTENDS Integers, Sequences, FiniteSets, TLC

\* ---------------------------------------------------------------- bounds
\* Number of calls of the DB's methods (Store, Await*, Shutdown) made in one run.
MaxOps == 3
\* Largest number of entries of one unsignedSet (also the number of pubkeys).
MaxBatch == 2
\* The last slot whose deadline passes in one run.
MaxNow == 1
\* Capacity of a query's Response channel.
ResponseCap == 1

Slots == {1, 2}
\* The slots of attestation data (an attester duty's own slot ranges over Slots).
AttDataSlots == {1}
CommIdxs == {0, 1}
ValIdxs == {1, 2}
Bodies == {1, 2}
PubKeys == 1 .. MaxBatch

DutyProposer == "proposer"
DutyAttester == "attester"
DutyAggregator == "aggregator"
DutySyncContribution == "sync_contribution"
DutyBuilderProposer == "builder_proposer"
DutyUnknown == "unknown"

\* The kinds that carry payloads, and the kinds Store rejects.
DataTypes == {DutyProposer, DutyAttester, DutyAggregator, DutySyncContribution}
RejectedTypes == {DutyBuilderProposer, DutyUnknown}

VARIABLES
    scope,              \* the payload kind this run's callers exercise
    ops,                \* the number of calls of the DB's methods made so far
    mu,                 \* db.mu: who holds the mutex
    attDuties, attPubKeys, attKeysBySlot, attQueries,
    proDuties, proQueries,
    aggDuties, aggKeysBySlot, aggQueries,
    contribDuties, contribKeysBySlot, contribQueries,
    shutdown,           \* db.shutdown is closed
    now,                \* the deadliner's clock: the last slot whose deadline passed
    dlAdded, dlC,       \* the deadliner: the duties added, and its channel C()
    store,              \* the Store call holding the mutex, or the last one's result
    stale,              \* history: the present payload keys of a slot whose expiration
                        \* was emitted with no store of the key since
    calls,              \* the Await* calls made so far, in order
    lookup,             \* the last PubKeyByAttestation call: its key and its return
    insertedBy          \* history: the present payload keys, each with the slot of the
                        \* duty of the Store call that inserted it

maps == <<attDuties, attPubKeys, attKeysBySlot, proDuties, aggDuties, aggKeysBySlot,
          contribDuties, contribKeysBySlot>>
queries == <<attQueries, proQueries, aggQueries, contribQueries>>
deadliner == <<now, dlAdded, dlC>>
vars == <<scope, ops, mu, maps, queries, shutdown, deadliner, store, stale, calls,
          lookup, insertedBy>>

\* ------------------------------------------------------------ Go maps
EmptyMap == [x \in {} |-> 0]

Put(f, k, v) == [x \in (DOMAIN f) \cup {k} |-> IF x = k THEN v ELSE f[x]]

Del(f, k) == [x \in (DOMAIN f) \ {k} |-> f[x]]

\* Indexing a map of slices with a missing key yields the nil slice.
SliceAt(f, k) == IF k \in DOMAIN f THEN f[k] ELSE <<>>

\* ------------------------------------------------------------ payloads
\* core.AttestationData: the eth2 attestation data and the attester duty.
\* A validator has one attester duty: validator v's is in slot v. The second
\* validator sits on committee 1 and signs the first attestation data.
AttPayloads ==
    {p \in [Data : [Slot : AttDataSlots, Body : Bodies],
            Duty : [Slot : Slots, CommitteeIndex : CommIdxs, ValidatorIndex : ValIdxs]] :
        /\ p.Duty.Slot = p.Duty.ValidatorIndex
        /\ p.Duty.ValidatorIndex = 2 => p.Data.Body = 1 /\ p.Duty.CommitteeIndex = 1}

\* core.VersionedProposal: the slot and the block contents.
ProPayloads == [Slot : Slots, Body : Bodies]

\* core.VersionedAggregatedAttestation: attestation data and aggregation bits.
AggPayloads == [Data : [Slot : Slots, Body : {1}], Bits : Bodies]

\* core.SyncContribution.
ContribPayloads ==
    [Slot : Slots, SubcommitteeIndex : {0}, BeaconBlockRoot : {1}, Bits : Bodies]

\* The hash tree root of a value: injective on the content it covers.
HashTreeRoot(x) == <<"root", x>>

PkKeys == [Slot : AttDataSlots, CommIdx : CommIdxs, ValIdx : ValIdxs]
AttKeys == [Slot : AttDataSlots, CommIdx : CommIdxs]
AggKeys == {[Slot |-> d.Slot, Root |-> HashTreeRoot(d)] : d \in [Slot : Slots, Body : {1}]}
ContribKeys == [Slot : Slots, SubcommIdx : {0}, Root : {1}]

DB ==
    [attDuties |-> attDuties, attPubKeys |-> attPubKeys, attKeysBySlot |-> attKeysBySlot,
     proDuties |-> proDuties, aggDuties |-> aggDuties, aggKeysBySlot |-> aggKeysBySlot,
     contribDuties |-> contribDuties, contribKeysBySlot |-> contribKeysBySlot]

\* The payload map and the waiter list of a kind.
DutiesIn(type, db) ==
    CASE type = DutyProposer -> db.proDuties
      [] type = DutyAttester -> db.attDuties
      [] type = DutyAggregator -> db.aggDuties
      [] type = DutySyncContribution -> db.contribDuties

DutiesOf(type) == DutiesIn(type, DB)

QueriesOf(type) ==
    CASE type = DutyProposer -> proQueries
      [] type = DutyAttester -> attQueries
      [] type = DutyAggregator -> aggQueries
      [] type = DutySyncContribution -> contribQueries

\* The slot of a payload key, and the payload keys a payload is stored under.
KeySlot(type, key) == IF type = DutyProposer THEN key ELSE key.Slot

KeysOf(type, d) ==
    CASE type = DutyProposer -> {d.Slot}
      [] type = DutyAttester ->
            {[Slot |-> d.Data.Slot, CommIdx |-> c] : c \in {d.Duty.CommitteeIndex, 0}}
      [] type = DutyAggregator ->
            {[Slot |-> d.Data.Slot, Root |-> HashTreeRoot(d.Data)]}
      [] type = DutySyncContribution ->
            {[Slot |-> d.Slot, SubcommIdx |-> d.SubcommitteeIndex,
              Root |-> d.BeaconBlockRoot]}

Ok(db) == [err |-> "ok", db |-> db]
Fail(e, db) == [err |-> e, db |-> db]

\* --------------------------------------------------- storeProposalUnsafe
\* A proposal store that overwrites the stored block instead of checking its root.
storeProposalUnsafeOverwrites(proposal, db) ==
    Ok([db EXCEPT !.proDuties = Put(@, proposal.Slot, proposal)])

storeProposalUnsafe(proposal, db) ==
    LET slot == proposal.Slot IN
    IF slot \in DOMAIN db.proDuties
    THEN IF HashTreeRoot(db.proDuties[slot]) # HashTreeRoot(proposal)
         THEN Fail("clashing_data", db)
         ELSE Ok(db)
    ELSE Ok([db EXCEPT !.proDuties = Put(@, slot, proposal)])

\* ------------------------------------------------ storeAttestationUnsafe
\* One pubkey write: the clash check, else the insert and the index append.
attPutPubKey(db, pKey, pubkey, dutySlot) ==
    IF pKey \in DOMAIN db.attPubKeys
    THEN IF db.attPubKeys[pKey] # pubkey
         THEN Fail("clashing_pubkey", db)
         ELSE Ok(db)
    ELSE Ok([db EXCEPT !.attPubKeys = Put(@, pKey, pubkey),
                       !.attKeysBySlot =
                           Put(@, dutySlot, Append(SliceAt(@, dutySlot), pKey))])

\* One attestation data write: the clash check, else the insert.
attPutData(db, aKey, data) ==
    IF aKey \in DOMAIN db.attDuties
    THEN IF db.attDuties[aKey] # data
         THEN Fail("clashing_data", db)
         ELSE Ok(db)
    ELSE Ok([db EXCEPT !.attDuties = Put(@, aKey, data)])

\* An attestation store that records only under the duty's committee index.
storeAttestationUnsafeNoCommIdx0(pubkey, attData, db) ==
    LET pKey == [Slot |-> attData.Data.Slot, CommIdx |-> attData.Duty.CommitteeIndex,
                 ValIdx |-> attData.Duty.ValidatorIndex]
        aKey == [Slot |-> attData.Data.Slot, CommIdx |-> attData.Duty.CommitteeIndex]
        r1 == attPutPubKey(db, pKey, pubkey, attData.Duty.Slot)
        r2 == attPutData(r1.db, aKey, attData.Data)
    IN  IF r1.err # "ok" THEN r1 ELSE r2

storeAttestationUnsafe(pubkey, attData, db) ==
    LET pKey == [Slot |-> attData.Data.Slot, CommIdx |-> attData.Duty.CommitteeIndex,
                 ValIdx |-> attData.Duty.ValidatorIndex]
        aKey == [Slot |-> attData.Data.Slot, CommIdx |-> attData.Duty.CommitteeIndex]
        pKeyCommIdx0 == [Slot |-> attData.Data.Slot, CommIdx |-> 0,
                         ValIdx |-> attData.Duty.ValidatorIndex]
        aKeyCommIdx0 == [Slot |-> attData.Data.Slot, CommIdx |-> 0]
        r1 == attPutPubKey(db, pKey, pubkey, attData.Duty.Slot)
        r2 == attPutData(r1.db, aKey, attData.Data)
        r3 == attPutPubKey(r2.db, pKeyCommIdx0, pubkey, attData.Duty.Slot)
        r4 == attPutData(r3.db, aKeyCommIdx0, attData.Data)
    IN  IF r1.err # "ok" THEN r1
        ELSE IF r2.err # "ok" THEN r2
        ELSE IF r3.err # "ok" THEN r3
        ELSE r4

\* --------------------------------------------- storeAggAttestationUnsafe
\* An aggregate store that keeps the stored aggregate when the key is present.
storeAggAttestationUnsafeKeepsFirst(aggAtt, db) ==
    LET key == [Slot |-> aggAtt.Data.Slot, Root |-> HashTreeRoot(aggAtt.Data)]
    IN  IF key \in DOMAIN db.aggDuties
        THEN Ok(db)
        ELSE Ok([db EXCEPT !.aggDuties = Put(@, key, aggAtt),
                           !.aggKeysBySlot =
                               Put(@, key.Slot, Append(SliceAt(@, key.Slot), key))])

storeAggAttestationUnsafe(aggAtt, db) ==
    LET aggRoot == HashTreeRoot(aggAtt.Data)
        slot == aggAtt.Data.Slot
        key == [Slot |-> slot, Root |-> aggRoot]
    IN  IF key \in DOMAIN db.aggDuties
        THEN IF HashTreeRoot(db.aggDuties[key].Data) # HashTreeRoot(aggAtt.Data)
             THEN Fail("clashing_data", db)
             ELSE Ok([db EXCEPT !.aggDuties = Put(@, key, aggAtt)])
        ELSE Ok([db EXCEPT !.aggDuties = Put(@, key, aggAtt),
                           !.aggKeysBySlot = Put(@, slot, Append(SliceAt(@, slot), key))])

\* ------------------------------------------- storeSyncContributionUnsafe
storeSyncContributionUnsafe(contrib, db) ==
    LET key == [Slot |-> contrib.Slot, SubcommIdx |-> contrib.SubcommitteeIndex,
                Root |-> contrib.BeaconBlockRoot]
    IN  IF key \in DOMAIN db.contribDuties
        THEN IF HashTreeRoot(db.contribDuties[key]) # HashTreeRoot(contrib)
             THEN Fail("clashing_data", db)
             ELSE Ok(db)
        ELSE Ok([db EXCEPT !.contribDuties = Put(@, key, contrib),
                           !.contribKeysBySlot =
                               Put(@, contrib.Slot, Append(SliceAt(@, contrib.Slot), key))])

\* ------------------------------------------------------ deleteDutyUnsafe
RECURSIVE DelAll(_, _)
DelAll(f, keys) ==
    IF keys = <<>> THEN f ELSE DelAll(Del(f, Head(keys)), Tail(keys))

RECURSIVE DelAttAll(_, _)
DelAttAll(f, keys) ==
    IF keys = <<>> THEN f
    ELSE DelAttAll(Del(f, [Slot |-> Head(keys).Slot, CommIdx |-> Head(keys).CommIdx]),
                   Tail(keys))

deleteDutyUnsafe(duty, db) ==
    CASE duty.Type = DutyProposer ->
            Ok([db EXCEPT !.proDuties = Del(@, duty.Slot)])
      [] duty.Type = DutyBuilderProposer ->
            Fail("deprecated", db)
      [] duty.Type = DutyAttester ->
            Ok([db EXCEPT
                !.attPubKeys = DelAll(@, SliceAt(db.attKeysBySlot, duty.Slot)),
                !.attDuties = DelAttAll(@, SliceAt(db.attKeysBySlot, duty.Slot)),
                !.attKeysBySlot = Del(@, duty.Slot)])
      [] duty.Type = DutyAggregator ->
            Ok([db EXCEPT
                !.aggDuties = DelAll(@, SliceAt(db.aggKeysBySlot, duty.Slot)),
                !.aggKeysBySlot = Del(@, duty.Slot)])
      [] duty.Type = DutySyncContribution ->
            Ok([db EXCEPT
                !.contribDuties = DelAll(@, SliceAt(db.contribKeysBySlot, duty.Slot)),
                !.contribKeysBySlot = Del(@, duty.Slot)])
      [] OTHER ->
            Fail("unknown_duty", db)

\* A drain that receives nothing from the deadliner's channel.
DeleteExpiredNone(c, db) == [err |-> "ok", db |-> db, c |-> c]

\* Store's "delete all expired duties" loop: receive from the deadliner's channel
\* until it is empty or a delete fails.
RECURSIVE DeleteExpired(_, _)
DeleteExpired(c, db) ==
    IF c = <<>> THEN [err |-> "ok", db |-> db, c |-> c]
    ELSE LET r == deleteDutyUnsafe(Head(c), db) IN
         IF r.err # "ok" THEN [err |-> r.err, db |-> r.db, c |-> Tail(c)]
         ELSE DeleteExpired(Tail(c), r.db)

\* ------------------------------------------------------------- queries
\* An Await* call: its query's key, its context, the Response channel (a buffer of
\* ResponseCap values, with the number of sends made on it), the Cancel channel
\* (closed by the deferred close when the call returns) and what it returned; and,
\* as history, whether it started after Shutdown, and whether its key was stale.
NewCall(type, key) ==
    [Type |-> type, Key |-> key, pc |-> "select", ctxDone |-> FALSE,
     Response |-> <<>>, sent |-> 0, Cancel |-> FALSE,
     late |-> shutdown, staleKey |-> key \in stale,
     ret |-> [err |-> "none", val |-> <<>>]]

\* A check of the Cancel channel that never finds it closed.
cancelledNever(cs, query) == FALSE

\* cancelled: whether the query's Cancel channel has been closed.
cancelled(cs, query) == cs[query.Call].Cancel

\* query.Response <- value
Send(cs, query, value) ==
    [cs EXCEPT ![query.Call].Response = Append(@, value), ![query.Call].sent = @ + 1]

\* A resolver loop that keeps a waiter in the list after delivering to it.
RECURSIVE ResolveLoopKeepsDelivered(_, _, _, _)
ResolveLoopKeepsDelivered(qs, duties, cs, unresolved) ==
    IF qs = <<>> THEN [queries |-> unresolved, calls |-> cs, blocked |-> FALSE]
    ELSE LET query == Head(qs) IN
         IF cancelled(cs, query)
         THEN ResolveLoopKeepsDelivered(Tail(qs), duties, cs, unresolved)
         ELSE IF query.Key \notin DOMAIN duties
         THEN ResolveLoopKeepsDelivered(Tail(qs), duties, cs, Append(unresolved, query))
         ELSE IF Len(cs[query.Call].Response) >= ResponseCap
         THEN [queries |-> unresolved, calls |-> cs, blocked |-> TRUE]
         ELSE ResolveLoopKeepsDelivered(Tail(qs), duties, Send(cs, query, duties[query.Key]),
                                        Append(unresolved, query))

\* The resolver loop shared by the four resolve*QueriesUnsafe functions. A send on a
\* full Response channel blocks the pass (and the mutex with it) where it stands.
RECURSIVE ResolveLoop(_, _, _, _)
ResolveLoop(qs, duties, cs, unresolved) ==
    IF qs = <<>> THEN [queries |-> unresolved, calls |-> cs, blocked |-> FALSE]
    ELSE LET query == Head(qs) IN
         IF cancelled(cs, query)
         THEN ResolveLoop(Tail(qs), duties, cs, unresolved)
         ELSE IF query.Key \notin DOMAIN duties
         THEN ResolveLoop(Tail(qs), duties, cs, Append(unresolved, query))
         ELSE IF Len(cs[query.Call].Response) >= ResponseCap
         THEN [queries |-> unresolved, calls |-> cs, blocked |-> TRUE]
         ELSE ResolveLoop(Tail(qs), duties, Send(cs, query, duties[query.Key]), unresolved)

\* The pass's result: db.xQueries is assigned only when the loop completes.
Resolved(qs, r) ==
    [queries |-> IF r.blocked THEN qs ELSE r.queries, calls |-> r.calls,
     blocked |-> r.blocked]

resolveAttQueriesUnsafe(qs, db, cs) == Resolved(qs, ResolveLoop(qs, db.attDuties, cs, <<>>))

\* A resolver pass that delivers nothing.
resolveProQueriesUnsafeSkipped(qs, db, cs) ==
    [queries |-> qs, calls |-> cs, blocked |-> FALSE]

resolveProQueriesUnsafe(qs, db, cs) == Resolved(qs, ResolveLoop(qs, db.proDuties, cs, <<>>))

resolveAggQueriesUnsafe(qs, db, cs) == Resolved(qs, ResolveLoop(qs, db.aggDuties, cs, <<>>))

resolveContribQueriesUnsafe(qs, db, cs) ==
    Resolved(qs, ResolveLoop(qs, db.contribDuties, cs, <<>>))

\* ------------------------------------------------------------- mutex
Unlocked == [owner |-> "none", call |-> 0]
LockedByStore == [owner |-> "Store", call |-> 0]
LockedByAwait(id) == [owner |-> "Await", call |-> id]

\* ------------------------------------------------------------- deadliner
\* The duties this run's callers and the deadliner deal in.
Duties == [Slot : Slots, Type : {scope}] \cup [Slot : {1}, Type : RejectedTypes]

\* deadliner.Add(duty): false when the duty's deadline has already passed.
DeadlinerAdd(duty) == duty.Slot > now

\* Wall-clock time passes the deadline of the next slot.
Tick ==
    /\ now < MaxNow /\ ~shutdown
    /\ now' = now + 1
    /\ UNCHANGED <<scope, lookup, insertedBy,
                   ops, mu, maps, queries, shutdown, dlAdded, dlC, store, stale,
                   calls>>

\* The deadliner sends an added duty whose deadline has passed on its channel.
Expire(duty) ==
    /\ duty \in dlAdded /\ duty.Slot <= now
    /\ dlC' = Append(dlC, duty) /\ dlAdded' = dlAdded \ {duty}
    /\ stale' = IF duty.Type \in DataTypes
                THEN stale \cup {k \in DOMAIN DutiesOf(duty.Type) :
                                     KeySlot(duty.Type, k) = duty.Slot}
                ELSE stale
    /\ UNCHANGED <<scope, lookup, insertedBy,
                   ops, mu, maps, queries, shutdown, now, store, calls>>

\* ------------------------------------------------------------- Init
NoDuty == [Slot |-> 0, Type |-> "none"]

\* The Store record between calls: the last call's result.
Idle(err) ==
    [pc |-> "idle", duty |-> NoDuty, left |-> 0, seen |-> {}, ctxDoneBefore |-> {},
     mapsBefore |-> <<>>, err |-> err]

\* ------------------------------------------------------- PubKeyByAttestation
NoLookup ==
    [key |-> [Slot |-> 0, CommIdx |-> 0, ValIdx |-> 0], ret |-> [err |-> "none", val |-> 0]]

\* A lookup that takes the validator index for the committee index and back.
PubKeyOfSwapped(db, slot, commIdx, valIdx) ==
    LET key == [Slot |-> slot, CommIdx |-> valIdx, ValIdx |-> commIdx] IN
    IF key \notin DOMAIN db.attPubKeys THEN [err |-> "not_found", val |-> 0]
    ELSE [err |-> "ok", val |-> db.attPubKeys[key]]

\* The lookup of PubKeyByAttestation: the pubkey at the key, or the not-found error
\* with the empty pubkey (0 here).
PubKeyOf(db, slot, commIdx, valIdx) ==
    LET key == [Slot |-> slot, CommIdx |-> commIdx, ValIdx |-> valIdx] IN
    IF key \notin DOMAIN db.attPubKeys THEN [err |-> "not_found", val |-> 0]
    ELSE [err |-> "ok", val |-> db.attPubKeys[key]]

Init ==
    /\ scope \in DataTypes
    /\ ops = 0
    /\ mu = Unlocked
    /\ attDuties = EmptyMap /\ attPubKeys = EmptyMap /\ attKeysBySlot = EmptyMap
    /\ proDuties = EmptyMap
    /\ aggDuties = EmptyMap /\ aggKeysBySlot = EmptyMap
    /\ contribDuties = EmptyMap /\ contribKeysBySlot = EmptyMap
    /\ attQueries = <<>> /\ proQueries = <<>> /\ aggQueries = <<>> /\ contribQueries = <<>>
    /\ shutdown = FALSE
    /\ now = 0 /\ dlAdded = {} /\ dlC = <<>>
    /\ store = Idle("none")
    /\ stale = {}
    /\ calls = <<>>
    /\ lookup = NoLookup
    /\ insertedBy = {}

\* ------------------------------------------------------------- Shutdown
\* close(db.shutdown). It is called once: a second close of the channel panics.
Shutdown ==
    /\ ~shutdown /\ ops < MaxOps
    /\ shutdown' = TRUE /\ ops' = ops + 1
    /\ UNCHANGED <<scope, lookup, insertedBy,
                   mu, maps, queries, deadliner, store, stale, calls>>

\* ------------------------------------------------------------- Store
SetDB(db) ==
    /\ attDuties' = db.attDuties /\ attPubKeys' = db.attPubKeys
    /\ attKeysBySlot' = db.attKeysBySlot /\ proDuties' = db.proDuties
    /\ aggDuties' = db.aggDuties /\ aggKeysBySlot' = db.aggKeysBySlot
    /\ contribDuties' = db.contribDuties /\ contribKeysBySlot' = db.contribKeysBySlot

\* History: the waiting calls whose context is done.
CtxDoneCalls == {id \in DOMAIN calls : calls[id].pc = "select" /\ calls[id].ctxDone}

\* Store with the classification of its early returns given by the caller.
StoreWith(duty, n, early) ==
    /\ mu = Unlocked /\ store.pc = "idle" /\ ops < MaxOps /\ ~shutdown
    /\ ops' = ops + 1
    /\ dlAdded' = IF DeadlinerAdd(duty) THEN dlAdded \cup {duty} ELSE dlAdded
    /\ IF early # "none"
       THEN store' = Idle(early) /\ mu' = Unlocked
       ELSE /\ store' = [pc |-> "loop", duty |-> duty, left |-> n, seen |-> {},
                         ctxDoneBefore |-> CtxDoneCalls, mapsBefore |-> maps,
                         err |-> "none"]
            /\ mu' = LockedByStore
    /\ UNCHANGED <<scope, lookup, insertedBy, maps, queries, shutdown, now, dlC, stale, calls>>

\* A Store that ignores the result of deadliner.Add.
StoreIgnoresExpired(duty, n) ==
    StoreWith(duty, n,
              IF duty.Type = DutyProposer /\ n > 1 THEN "malformed"
              ELSE IF duty.Type = DutyBuilderProposer THEN "deprecated"
              ELSE IF duty.Type \notin DataTypes THEN "unsupported"
              ELSE "none")

\* A Store without the length check of the proposer case.
StoreNoLengthCheck(duty, n) ==
    StoreWith(duty, n,
              IF ~DeadlinerAdd(duty) THEN "expired"
              ELSE IF duty.Type = DutyBuilderProposer THEN "deprecated"
              ELSE IF duty.Type \notin DataTypes THEN "unsupported"
              ELSE "none")

\* Store up to its loop over unsignedSet (n entries): the lock, deadliner.Add, and
\* the returns that come before any payload is read. The Store record keeps, as
\* history, the calls whose context was done and the maps when Store took the lock. The callers
\* start no Store after Shutdown; a Store that is running then runs to its return.
Store(duty, n) ==
    /\ mu = Unlocked /\ store.pc = "idle" /\ ops < MaxOps /\ ~shutdown
    /\ ops' = ops + 1
    /\ dlAdded' = IF DeadlinerAdd(duty) THEN dlAdded \cup {duty} ELSE dlAdded
    /\ LET early ==
               IF ~DeadlinerAdd(duty) THEN "expired"
               ELSE IF duty.Type = DutyProposer /\ n > 1 THEN "malformed"
               ELSE IF duty.Type = DutyBuilderProposer THEN "deprecated"
               ELSE IF duty.Type \notin DataTypes THEN "unsupported"
               ELSE "none"
       IN  IF early # "none"
           THEN store' = Idle(early) /\ mu' = Unlocked
           ELSE /\ store' = [pc |-> "loop", duty |-> duty, left |-> n, seen |-> {},
                             ctxDoneBefore |-> CtxDoneCalls, mapsBefore |-> maps,
                             err |-> "none"]
                /\ mu' = LockedByStore
    /\ UNCHANGED <<scope, lookup, insertedBy, maps, queries, shutdown, now, dlC, stale, calls>>

\* The payloads a Store of this kind reads from unsignedSet.
Payloads(type) ==
    CASE type = DutyProposer -> ProPayloads
      [] type = DutyAttester -> AttPayloads
      [] type = DutyAggregator -> AggPayloads
      [] type = DutySyncContribution -> ContribPayloads

storeUnsafe(type, pubkey, unsignedData, db) ==
    CASE type = DutyProposer -> storeProposalUnsafe(unsignedData, db)
      [] type = DutyAttester -> storeAttestationUnsafe(pubkey, unsignedData, db)
      [] type = DutyAggregator -> storeAggAttestationUnsafe(unsignedData, db)
      [] type = DutySyncContribution -> storeSyncContributionUnsafe(unsignedData, db)

\* One iteration of Store's loop over unsignedSet: an error returns at once.
StoreUnsignedData(pubkey, unsignedData) ==
    /\ store.pc = "loop" /\ store.left > 0
    /\ pubkey \notin store.seen
    /\ unsignedData \in Payloads(store.duty.Type)
    /\ LET r == storeUnsafe(store.duty.Type, pubkey, unsignedData, DB) IN
       /\ SetDB(r.db)
       /\ insertedBy' =
              insertedBy \cup
                  {<<k, store.duty.Slot>> :
                      k \in DOMAIN DutiesIn(store.duty.Type, r.db)
                               \ DOMAIN DutiesOf(store.duty.Type)}
       /\ IF r.err # "ok"
          THEN store' = Idle(r.err) /\ mu' = Unlocked
          ELSE /\ store' = [store EXCEPT
                              !.left = @ - 1,
                              !.seen = IF store.duty.Type = DutyAttester
                                       THEN @ \cup {pubkey} ELSE @]
               /\ UNCHANGED mu
    /\ stale' = stale \ KeysOf(store.duty.Type, unsignedData)
    /\ UNCHANGED <<scope, lookup, ops, queries, shutdown, deadliner, calls>>

\* A Store that runs no resolver pass.
resolveQueriesUnsafeSkipped(type, qs, db, cs) ==
    [queries |-> qs, calls |-> cs, blocked |-> FALSE]

\* The resolver pass Store runs for the duty's kind.
resolveQueriesUnsafe(type, qs, db, cs) ==
    CASE type = DutyProposer -> resolveProQueriesUnsafe(qs, db, cs)
      [] type = DutyAttester -> resolveAttQueriesUnsafe(qs, db, cs)
      [] type = DutyAggregator -> resolveAggQueriesUnsafe(qs, db, cs)
      [] type = DutySyncContribution -> resolveContribQueriesUnsafe(qs, db, cs)

\* After the loop: the resolver pass of the duty's kind, then the deletion of all
\* expired duties, then the return.
StoreResolve ==
    /\ store.pc = "loop" /\ store.left = 0
    /\ LET type == store.duty.Type
           qs == CASE type = DutyProposer -> proQueries
                   [] type = DutyAttester -> attQueries
                   [] type = DutyAggregator -> aggQueries
                   [] type = DutySyncContribution -> contribQueries
           r == resolveQueriesUnsafe(type, qs, DB, calls)
           d == DeleteExpired(dlC, DB)
       IN  /\ calls' = r.calls
           /\ proQueries' = IF type = DutyProposer THEN r.queries ELSE proQueries
           /\ attQueries' = IF type = DutyAttester THEN r.queries ELSE attQueries
           /\ aggQueries' = IF type = DutyAggregator THEN r.queries ELSE aggQueries
           /\ contribQueries' =
                  IF type = DutySyncContribution THEN r.queries ELSE contribQueries
           /\ IF r.blocked
              THEN UNCHANGED <<maps, dlC, store, mu, stale, insertedBy>>
              ELSE /\ SetDB(d.db) /\ dlC' = d.c
                   /\ store' = Idle(d.err)
                   /\ stale' = stale \cap DOMAIN DutiesIn(type, d.db)
                   /\ insertedBy' =
                          {p \in insertedBy : p[1] \in DOMAIN DutiesIn(type, d.db)}
                   /\ mu' = Unlocked
    /\ UNCHANGED <<scope, lookup, ops, shutdown, now, dlAdded>>

\* An AwaitProposal that appends its query without taking the mutex.
AwaitProposalNoLock(slot) ==
    /\ scope = DutyProposer /\ ops < MaxOps
    /\ ops' = ops + 1
    /\ LET id == Len(calls) + 1
       IN  /\ calls' = Append(calls, NewCall(DutyProposer, slot))
           /\ proQueries' = Append(proQueries, [Key |-> slot, Call |-> id])
    /\ UNCHANGED <<scope, lookup, insertedBy,
                   mu, maps, attQueries, aggQueries, contribQueries, shutdown,
                   deadliner, store, stale>>

\* ------------------------------------------------------------- Await*
\* The locked part of an Await* call: the query is appended, the resolver pass of
\* its kind runs, and the mutex is released.
AwaitProposal(slot) ==
    /\ mu = Unlocked /\ scope = DutyProposer /\ ops < MaxOps
    /\ ops' = ops + 1
    /\ LET id == Len(calls) + 1
           qs == Append(proQueries, [Key |-> slot, Call |-> id])
           r == resolveProQueriesUnsafe(qs, DB, Append(calls, NewCall(DutyProposer, slot)))
       IN  /\ calls' = r.calls /\ proQueries' = r.queries
           /\ mu' = IF r.blocked THEN LockedByAwait(id) ELSE Unlocked
    /\ UNCHANGED <<scope, lookup, insertedBy,
                   maps, attQueries, aggQueries, contribQueries, shutdown,
                   deadliner, store, stale>>

AwaitAttestation(slot, commIdx) ==
    /\ mu = Unlocked /\ scope = DutyAttester /\ ops < MaxOps
    /\ ops' = ops + 1
    /\ LET id == Len(calls) + 1
           key == [Slot |-> slot, CommIdx |-> commIdx]
           qs == Append(attQueries, [Key |-> key, Call |-> id])
           r == resolveAttQueriesUnsafe(qs, DB, Append(calls, NewCall(DutyAttester, key)))
       IN  /\ calls' = r.calls /\ attQueries' = r.queries
           /\ mu' = IF r.blocked THEN LockedByAwait(id) ELSE Unlocked
    /\ UNCHANGED <<scope, lookup, insertedBy,
                   maps, proQueries, aggQueries, contribQueries, shutdown,
                   deadliner, store, stale>>

AwaitAggAttestation(slot, attestationRoot) ==
    /\ mu = Unlocked /\ scope = DutyAggregator /\ ops < MaxOps
    /\ ops' = ops + 1
    /\ LET id == Len(calls) + 1
           key == [Slot |-> slot, Root |-> attestationRoot]
           qs == Append(aggQueries, [Key |-> key, Call |-> id])
           r == resolveAggQueriesUnsafe(qs, DB, Append(calls, NewCall(DutyAggregator, key)))
       IN  /\ calls' = r.calls /\ aggQueries' = r.queries
           /\ mu' = IF r.blocked THEN LockedByAwait(id) ELSE Unlocked
    /\ UNCHANGED <<scope, lookup, insertedBy,
                   maps, attQueries, proQueries, contribQueries, shutdown,
                   deadliner, store, stale>>

AwaitSyncContribution(slot, subcommIdx, beaconBlockRoot) ==
    /\ mu = Unlocked /\ scope = DutySyncContribution /\ ops < MaxOps
    /\ ops' = ops + 1
    /\ LET id == Len(calls) + 1
           key == [Slot |-> slot, SubcommIdx |-> subcommIdx, Root |-> beaconBlockRoot]
           qs == Append(contribQueries, [Key |-> key, Call |-> id])
           r == resolveContribQueriesUnsafe(
                    qs, DB, Append(calls, NewCall(DutySyncContribution, key)))
       IN  /\ calls' = r.calls /\ contribQueries' = r.queries
           /\ mu' = IF r.blocked THEN LockedByAwait(id) ELSE Unlocked
    /\ UNCHANGED <<scope, lookup, insertedBy,
                   maps, attQueries, proQueries, aggQueries, shutdown,
                   deadliner, store, stale>>

\* PubKeyByAttestation: the lock, the lookup, the deferred unlock and the return.
PubKeyByAttestation(slot, commIdx, valIdx) ==
    /\ mu = Unlocked /\ scope = DutyAttester /\ ops < MaxOps
    /\ ops' = ops + 1
    /\ lookup' = [key |-> [Slot |-> slot, CommIdx |-> commIdx, ValIdx |-> valIdx],
                  ret |-> PubKeyOf(DB, slot, commIdx, valIdx)]
    /\ UNCHANGED <<scope, insertedBy, mu, maps, queries, shutdown, deadliner, store, stale,
                   calls>>

\* The value an Await* call returns for a received one: AwaitAggAttestation clones
\* it and returns its VersionedAttestation, the others return it as it is.
Returned(type, value) == value

\* A select without the case for the shutdown channel.
SelectReadyNoShutdown(c) ==
    (IF c.ctxDone THEN {[err |-> "cancelled", val |-> <<>>]} ELSE {})
    \cup (IF c.Response # <<>>
          THEN {[err |-> "ok", val |-> <<Returned(c.Type, Head(c.Response))>>]}
          ELSE {})

\* A select whose shutdown case returns the context's error.
SelectReadyShutdownAsCancelled(c) ==
    (IF shutdown \/ c.ctxDone THEN {[err |-> "cancelled", val |-> <<>>]} ELSE {})
    \cup (IF c.Response # <<>>
          THEN {[err |-> "ok", val |-> <<Returned(c.Type, Head(c.Response))>>]}
          ELSE {})

\* The outcomes of the select that are ready for this call.
SelectReady(c) ==
    (IF shutdown THEN {[err |-> "shutdown", val |-> <<>>]} ELSE {})
    \cup (IF c.ctxDone THEN {[err |-> "cancelled", val |-> <<>>]} ELSE {})
    \cup (IF c.Response # <<>>
          THEN {[err |-> "ok", val |-> <<Returned(c.Type, Head(c.Response))>>]}
          ELSE {})

\* The select of an Await* call and its return: one of the ready cases is taken,
\* and the deferred close(cancel) runs.
AwaitSelect(id) ==
    /\ id \in DOMAIN calls /\ calls[id].pc = "select"
    /\ mu # LockedByAwait(id)
    /\ \E ret \in SelectReady(calls[id]) :
           calls' = [calls EXCEPT
                        ![id].pc = "done", ![id].Cancel = TRUE, ![id].ret = ret,
                        ![id].ctxDone = FALSE, ![id].Response = <<>>]
    /\ UNCHANGED <<scope, lookup, insertedBy,
                   ops, mu, maps, queries, shutdown, deadliner, store, stale>>

\* The caller's context is cancelled.
CtxDone(id) ==
    /\ id \in DOMAIN calls /\ calls[id].pc = "select" /\ ~calls[id].ctxDone
    /\ calls' = [calls EXCEPT ![id].ctxDone = TRUE]
    /\ UNCHANGED <<scope, lookup, insertedBy,
                   ops, mu, maps, queries, shutdown, deadliner, store, stale>>

\* ------------------------------------------------------------- Next
Next ==
    \/ \E duty \in Duties, n \in 0 .. MaxBatch : Store(duty, n)
    \/ \E pubkey \in PubKeys, unsignedData \in Payloads(scope) :
           StoreUnsignedData(pubkey, unsignedData)
    \/ StoreResolve
    \/ \E slot \in Slots : AwaitProposal(slot)
    \/ \E key \in AttKeys : AwaitAttestation(key.Slot, key.CommIdx)
    \/ \E key \in AggKeys : AwaitAggAttestation(key.Slot, key.Root)
    \/ \E key \in ContribKeys : AwaitSyncContribution(key.Slot, key.SubcommIdx, key.Root)
    \/ \E key \in PkKeys : PubKeyByAttestation(key.Slot, key.CommIdx, key.ValIdx)
    \/ \E id \in 1 .. MaxOps : AwaitSelect(id)
    \/ \E id \in 1 .. MaxOps : CtxDone(id)
    \/ Shutdown
    \/ Tick
    \/ \E duty \in Duties : Expire(duty)

Spec == Init /\ [][Next]_vars

\* One step of a Store call that has entered its loop.
StoreStep ==
    \/ \E pubkey \in PubKeys, unsignedData \in Payloads(scope) :
           StoreUnsignedData(pubkey, unsignedData)
    \/ StoreResolve

\* The scheduler runs a Store call that holds the mutex to its return, and wakes an
\* Await* call whose select has a ready case.
FairSpec ==
    /\ Spec
    /\ WF_vars(StoreStep)
    /\ \A id \in 1 .. MaxOps : WF_vars(AwaitSelect(id))

\* ------------------------------------------------------------- properties
Waiting(id) == id \in DOMAIN calls /\ calls[id].pc = "select"

Done(id) == id \in DOMAIN calls /\ calls[id].pc = "done"

\* The call's key is in the payload map of its kind.
KeyPresent(id) == id \in DOMAIN calls /\ calls[id].Key \in DOMAIN DutiesOf(calls[id].Type)

\* C1 (eventual delivery): a waiter whose key a Store has inserted, and which has not
\* been evicted, eventually returns, unless its caller cancels or the DB is shut
\* down. Stated from the moment the inserting Store has released the mutex.
C1_EventualDelivery ==
    \A id \in 1 .. MaxOps :
        (Waiting(id) /\ KeyPresent(id) /\ mu = Unlocked)
            ~> (Done(id) \/ (Waiting(id) /\ calls[id].ctxDone) \/ shutdown)

\* A Store call stands at a resolver pass that cannot complete its sends.
StoreBlocked ==
    /\ store.pc = "loop" /\ store.left = 0
    /\ resolveQueriesUnsafe(store.duty.Type, QueriesOf(store.duty.Type), DB, calls).blocked

\* C2 (at-most-once, non-blocking delivery): no waiter's Response channel is written
\* more than once or holds more than its capacity, and no resolver pass, of a Store
\* or of an Await* call, blocks on a send while holding the mutex.
C2_AtMostOnce ==
    /\ \A id \in DOMAIN calls :
           calls[id].sent <= 1 /\ Len(calls[id].Response) <= ResponseCap
    /\ mu.owner # "Await"
    /\ ~StoreBlocked

\* A delivered waiter that has not woken yet, and a later resolver pass of its kind
\* that delivered to another waiter.
C2_Witness ==
    \E i, j \in DOMAIN calls :
        /\ i < j /\ calls[i].pc = "select" /\ calls[i].sent = 1
        /\ calls[i].Response # <<>> /\ calls[j].sent = 1 /\ store.err = "ok"

ClashErrs == {"clashing_data", "clashing_pubkey"}

\* The kinds whose entries are immutable once present.
ImmutableTypes == {DutyProposer, DutyAttester, DutySyncContribution}

\* A key the payload is stored under exists with a different content, or with a
\* different public key.
Clashes(type, pubkey, d) ==
    CASE type = DutyProposer ->
            d.Slot \in DOMAIN proDuties /\ proDuties[d.Slot] # d
      [] type = DutySyncContribution ->
            LET key == [Slot |-> d.Slot, SubcommIdx |-> d.SubcommitteeIndex,
                        Root |-> d.BeaconBlockRoot]
            IN  key \in DOMAIN contribDuties /\ contribDuties[key] # d
      [] type = DutyAttester ->
            \E c \in {d.Duty.CommitteeIndex, 0} :
                LET pKey == [Slot |-> d.Data.Slot, CommIdx |-> c,
                             ValIdx |-> d.Duty.ValidatorIndex]
                    aKey == [Slot |-> d.Data.Slot, CommIdx |-> c]
                IN  \/ pKey \in DOMAIN attPubKeys /\ attPubKeys[pKey] # pubkey
                    \/ aKey \in DOMAIN attDuties /\ attDuties[aKey] # d.Data
      [] OTHER -> FALSE

\* Every entry of f is in g with the same content.
Preserved(f, g) == \A k \in DOMAIN f : k \in DOMAIN g /\ g[k] = f[k]

\* The step of Store's loop that reads a clashing payload returns a clash error.
ClashReturnsError ==
    \A pubkey \in PubKeys, d \in Payloads(scope) :
        (/\ store.pc = "loop" /\ store.duty.Type \in ImmutableTypes
         /\ store' # store /\ StoreUnsignedData(pubkey, d))
        => /\ Preserved(proDuties, proDuties') /\ Preserved(attDuties, attDuties')
           /\ Preserved(attPubKeys, attPubKeys')
           /\ Preserved(contribDuties, contribDuties')
           /\ Clashes(store.duty.Type, pubkey, d)
                  => store'.pc = "idle" /\ store'.err \in ClashErrs
           /\ ~Clashes(store.duty.Type, pubkey, d) => store'.pc = "loop"

\* C3 (content integrity), amended: a proposer, attester or sync-contribution Store
\* that the deadliner accepts and that is well-formed returns ClashingData or
\* ClashingPubKey at the first payload one of whose keys exists with a different
\* content or public key, and only then; no step of the loop changes or removes an
\* entry that is present.
C3_ContentIntegrity == [][ClashReturnsError]_vars

\* A Store has returned a clash error and the entries are still there.
C3_Witness ==
    /\ store.pc = "idle" /\ store.err = "clashing_pubkey"
    /\ attPubKeys # EmptyMap /\ attDuties # EmptyMap

\* C3 as stated: every Store called with a payload one of whose keys exists with a
\* different content returns a clash error, also when it returns before reading
\* its payloads.
C3_AnyStoreClashes ==
    [][/\ ClashReturnsError
       /\ \A duty \in Duties, n \in 1 .. MaxBatch, pubkey \in PubKeys,
             d \in Payloads(scope) :
              (/\ duty.Type \in ImmutableTypes /\ Clashes(duty.Type, pubkey, d)
               /\ Store(duty, n) /\ store'.pc = "idle")
              => store'.err \in ClashErrs]_vars

\* The key an aggregate is stored under.
AggKeyOf(d) == [Slot |-> d.Data.Slot, Root |-> HashTreeRoot(d.Data)]

\* The step of an aggregator Store's loop: never a clash; on a present key the
\* provided aggregate replaces the stored one and nothing else changes.
AggReplaces ==
    \A pubkey \in PubKeys, d \in AggPayloads :
        (/\ store.pc = "loop" /\ store.duty.Type = DutyAggregator
         /\ store' # store /\ StoreUnsignedData(pubkey, d))
        => /\ store'.pc = "loop"
           /\ aggDuties' = Put(aggDuties, AggKeyOf(d), d)
           /\ AggKeyOf(d) \in DOMAIN aggDuties => aggKeysBySlot' = aggKeysBySlot

\* C4 (aggregator refinement), amended: when an aggregator Store reads a payload
\* whose (slot, attestation-data root) key is present, storing that payload
\* succeeds and the provided payload replaces the stored one, so later reads of the
\* key see the latest aggregate; storing an aggregate never returns ClashingData.
C4_AggregatorRefinement == [][AggReplaces]_vars

\* A waiter returned the first aggregate of a key that now holds a later one.
C4_Witness ==
    \E id \in DOMAIN calls :
        /\ calls[id].Type = DutyAggregator /\ calls[id].ret.err = "ok"
        /\ KeyPresent(id) /\ store.pc = "idle"
        /\ aggDuties[calls[id].Key] # Head(calls[id].ret.val)

\* C4 as stated: an aggregator Store called with a payload whose key is present
\* succeeds, so it does not return an error before reading its payloads either.
C4_StoreSucceeds ==
    [][/\ AggReplaces
       /\ \A duty \in Duties, n \in 1 .. MaxBatch, d \in AggPayloads :
              (/\ duty.Type = DutyAggregator /\ AggKeyOf(d) \in DOMAIN aggDuties
               /\ Store(duty, n) /\ store'.pc = "idle")
              => store'.err = "ok"]_vars

\* The step of an attester Store's loop that stores a payload records its data and
\* public key under the payload's committee index and under committee index 0, and
\* a clash at either pair of keys fails it.
AttRecordedTwice ==
    \A pubkey \in PubKeys, d \in AttPayloads :
        (/\ store.pc = "loop" /\ store.duty.Type = DutyAttester
         /\ store' # store /\ StoreUnsignedData(pubkey, d))
        => /\ store'.pc = "loop" =>
                  \A c \in {d.Duty.CommitteeIndex, 0} :
                      LET pKey == [Slot |-> d.Data.Slot, CommIdx |-> c,
                                   ValIdx |-> d.Duty.ValidatorIndex]
                          aKey == [Slot |-> d.Data.Slot, CommIdx |-> c]
                      IN  /\ aKey \in DOMAIN attDuties' /\ attDuties'[aKey] = d.Data
                          /\ pKey \in DOMAIN attPubKeys' /\ attPubKeys'[pKey] = pubkey
           /\ store'.pc = "loop" <=> ~Clashes(DutyAttester, pubkey, d)

C6_EvictionCompleteness ==
    \A id \in DOMAIN calls :
        (calls[id].staleKey /\ calls[id].pc = "done") => calls[id].ret.err # "ok"

ErrShutdown == [err |-> "shutdown", val |-> <<>>]

\* What the select of a call may return once the shutdown channel is closed: the
\* Shutdown error; Cancelled if its context is done; the payload on its Response
\* channel if there is one.
ShutdownReturn(c, ret) ==
    \/ ret = ErrShutdown
    \/ ret.err = "cancelled" /\ c.ctxDone
    \/ ret.err = "ok" /\ c.Response # <<>> /\ ret.val = <<Head(c.Response)>>

\* After Shutdown the calls of this group (those that started after Shutdown, or
\* those that started before it) are not blocked: the shutdown case of their
\* select is ready; and the return of such a call is one ShutdownReturn allows.
WakesOnShutdown(late) ==
    /\ \A id \in DOMAIN calls' :
           (shutdown' /\ calls'[id].pc = "select" /\ calls'[id].late = late)
           => ErrShutdown \in SelectReady(calls[id])' /\ mu' # LockedByAwait(id)
    /\ \A id \in DOMAIN calls :
           (shutdown /\ calls[id].late = late /\ AwaitSelect(id))
           => ShutdownReturn(calls[id], calls'[id].ret)

C8_AwaitAfterShutdown == [][WakesOnShutdown(TRUE)]_vars

\* A call that started after Shutdown has returned the Shutdown error although its
\* key is present.
C8_Witness ==
    \E id \in DOMAIN calls :
        calls[id].late /\ Done(id) /\ calls[id].ret = ErrShutdown /\ KeyPresent(id)

\* C8 as stated: a call that starts after Shutdown, and whose caller does not
\* cancel, returns the Shutdown error, also when its key is present.
C8_ReturnsShutdown ==
    \A id \in DOMAIN calls :
        (calls[id].late /\ Done(id) /\ calls[id].ret.err # "cancelled")
        => calls[id].ret = ErrShutdown

\* The step is a completed resolver pass of the call's kind: of a Store of that
\* kind, or of an Await* call (all of one run's calls are of one kind).
ResolverPass(id) ==
    \/ StoreResolve /\ store.duty.Type = calls[id].Type
    \/ Len(calls') > Len(calls)

Queued(qs, id) == \E i \in DOMAIN qs : qs[i].Call = id

\* No step sends to a call that has returned (its Cancel channel is closed), and a
\* resolver pass of its kind leaves no query of it in the waiter list.
DropsReturned ==
    \A id \in DOMAIN calls :
        calls[id].Cancel
        => /\ calls'[id] = calls[id]
           /\ ResolverPass(id) => ~Queued(QueriesOf(calls[id].Type)', id)

\* C9 (cancellation leaves no delivery), amended: once an Await* call whose caller
\* cancelled has returned, a Store of its key never writes to its Response channel,
\* and the next resolver pass of its kind, of a Store or of an Await*, removes its
\* query from the waiter list without delivery.
C9_CancelledDropped == [][DropsReturned]_vars

\* A call returned Cancelled with nothing delivered; a later Store stored its key
\* and returned ok, and the call's query is gone.
C9_Witness ==
    \E id \in DOMAIN calls :
        /\ Done(id) /\ calls[id].ret.err = "cancelled" /\ calls[id].sent = 0
        /\ KeyPresent(id) /\ store.pc = "idle" /\ store.err = "ok"
        /\ ~Queued(QueriesOf(calls[id].Type), id)

\* C9 as stated: when the caller's context is done before a Store is called, the
\* resolver pass of that Store does not write to the waiter's Response channel.
C9_NoDeliveryAfterCtxDone ==
    [][StoreResolve =>
           \A id \in store.ctxDoneBefore : calls'[id].sent = calls[id].sent]_vars

\* The registration of an Await* call delivers a present payload to it at once and
\* does not queue it; with no shutdown and no cancellation its select returns the
\* delivered payload; neither step changes the maps.
AwaitServesPresent ==
    /\ Len(calls') > Len(calls) =>
           LET id == Len(calls')
               c == calls'[id]
           IN  /\ maps' = maps
               /\ c.Type = scope
               /\ IF c.Key \in DOMAIN DutiesOf(scope)
                  THEN /\ c.Response = <<DutiesOf(scope)[c.Key]>> /\ c.sent = 1
                       /\ ~Queued(QueriesOf(scope)', id)
                  ELSE c.Response = <<>> /\ Queued(QueriesOf(scope)', id)
    /\ \A id \in DOMAIN calls :
           AwaitSelect(id) =>
               /\ maps' = maps
               /\ (~shutdown /\ ~calls[id].ctxDone)
                      => calls'[id].ret = [err |-> "ok", val |-> <<Head(calls[id].Response)>>]

\* C10 (store-then-await without consumption): an Await* call whose key is present
\* when it registers is delivered the stored payload by its own resolver pass and,
\* with no shutdown and no cancellation, returns it without another Store; delivery
\* and return leave the maps unchanged, so later calls on the key are served the
\* same payload.
C10_AwaitServesPresent == [][AwaitServesPresent]_vars

\* Two calls on one key have both returned the payload that is still stored.
C10_Witness ==
    \E i, j \in DOMAIN calls :
        /\ i < j /\ calls[i].Key = calls[j].Key /\ Done(i) /\ Done(j)
        /\ calls[i].ret.err = "ok" /\ calls[j].ret = calls[i].ret
        /\ KeyPresent(j) /\ calls[j].ret.val = <<DutiesOf(calls[j].Type)[calls[j].Key]>>

\* ------------------------------------------------------------- C11
\* C11: a Store call whose duty the deadliner refuses (Add returns false) returns
\* the expired-duty error, and leaves every payload map, the pubkey map, every
\* slot index, every waiter list and every waiter's channel as they were.
ExpiredRejected ==
    \A duty \in Duties, n \in 0 .. MaxBatch :
        (Store(duty, n) /\ ~DeadlinerAdd(duty)) =>
            /\ store'.pc = "idle" /\ store'.err = "expired"
            /\ mu' = Unlocked
            /\ maps' = maps /\ queries' = queries /\ calls' = calls
            /\ dlAdded' = dlAdded /\ dlC' = dlC

C11_ExpiredRejected == [][ExpiredRejected]_vars

\* A Store was refused as expired while a waiter was queued.
C11_Witness ==
    /\ store.pc = "idle" /\ store.err = "expired"
    /\ \E id \in DOMAIN calls : Waiting(id) /\ Queued(QueriesOf(scope), id)

\* ------------------------------------------------------------- C12
\* The duties whose Store is rejected by validation, and the error each gets.
ValidationErr(duty, n) ==
    IF duty.Type = DutyProposer /\ n > 1 THEN "malformed"
    ELSE IF duty.Type = DutyBuilderProposer THEN "deprecated"
    ELSE IF duty.Type \notin DataTypes THEN "unsupported"
    ELSE "none"

\* C12: a Store call that the deadliner accepts returns the malformed-input error
\* for a proposer duty with more than one payload, the deprecated-duty error for
\* the builder-proposer kind and the unknown-kind error for any other unrecognised
\* kind; such a call, accepted or refused, creates or changes no payload, pubkey or
\* slot index entry.
ValidationInsertsNothing ==
    \A duty \in Duties, n \in 0 .. MaxBatch :
        (Store(duty, n) /\ ValidationErr(duty, n) # "none") =>
            /\ store'.pc = "idle"
            /\ DeadlinerAdd(duty) => store'.err = ValidationErr(duty, n)
            /\ maps' = maps

C12_ValidationInsertsNothing == [][ValidationInsertsNothing]_vars

\* A Store of the builder-proposer kind was rejected as deprecated while the store
\* held a payload.
C12_Witness ==
    /\ store.pc = "idle" /\ store.err = "deprecated"
    /\ DOMAIN DutiesOf(scope) # {}

\* C12 as stated: every Store call of the three rejected shapes returns its
\* validation error, whatever the deadliner says.
C12_AlwaysValidationError ==
    [][\A duty \in Duties, n \in 0 .. MaxBatch :
           (Store(duty, n) /\ ValidationErr(duty, n) # "none") =>
               store'.err = ValidationErr(duty, n)]_vars

\* ------------------------------------------------------------- C13
\* The channels of the calls that existed before the step are as they were.
ChannelsUnchanged ==
    \A id \in DOMAIN calls :
        /\ calls'[id].Response = calls[id].Response
        /\ calls'[id].sent = calls[id].sent

\* C13: a call suspended in the select of an Await* does not hold the mutex, the
\* wake-up and return of an Await* leaves the mutex, the maps and the waiter lists
\* alone, and every step that changes a map, a waiter list or a waiter's channel
\* is a step of the one call that holds the mutex: a Store inside its lock, or the
\* locked part of an Await* that found the mutex free.
LockDiscipline ==
    /\ \A id \in DOMAIN calls' : calls'[id].pc = "select" => mu' # LockedByAwait(id)
    /\ \A id \in 1 .. MaxOps :
           AwaitSelect(id) => mu' = mu /\ maps' = maps /\ queries' = queries
    /\ maps' # maps => mu = LockedByStore
    /\ (queries' # queries \/ ~ChannelsUnchanged) =>
           \/ mu = LockedByStore /\ Len(calls') = Len(calls)
           \/ mu = Unlocked /\ Len(calls') = Len(calls) + 1
           \/ \E id \in 1 .. MaxOps : AwaitSelect(id)

C13_LockDiscipline == [][LockDiscipline]_vars

\* A call is suspended in its select, with its query queued, while a Store holds
\* the mutex and has inserted a payload.
C13_Witness ==
    /\ mu = LockedByStore
    /\ DOMAIN DutiesOf(scope) # {}
    /\ \E id \in DOMAIN calls : Waiting(id) /\ Queued(QueriesOf(scope), id)

\* ------------------------------------------------------------- C14
\* C14: when a Store call returns success, every waiter of the Store's kind that
\* was queued and not cancelled and whose key was present after the Store's
\* insertions has been sent the stored payload on its channel and is no longer in
\* the waiter list.
ResolvedBeforeReturn ==
    (store.pc = "loop" /\ store'.pc = "idle" /\ store'.err = "ok") =>
        \A id \in DOMAIN calls :
            (/\ Queued(QueriesOf(scope), id)
             /\ ~calls[id].Cancel
             /\ calls[id].Key \in DOMAIN DutiesOf(scope)) =>
                /\ calls'[id].sent = calls[id].sent + 1
                /\ calls'[id].Response =
                       Append(calls[id].Response, DutiesOf(scope)[calls[id].Key])
                /\ ~Queued(QueriesOf(scope)', id)

C14_ResolvedBeforeReturn == [][ResolvedBeforeReturn]_vars

\* One Await* and one Store have been called, the Store has returned success, and
\* the waiter holds a payload although its key is absent now: the key was absent
\* when the waiter registered, so the Store's resolver pass delivered to it, before
\* the Store's eviction removed the entry.
C14_Witness ==
    /\ ops = 2 /\ Len(calls) = 1
    /\ store.pc = "idle" /\ store.err = "ok"
    /\ Waiting(1) /\ calls[1].sent = 1 /\ Len(calls[1].Response) = 1
    /\ ~Queued(QueriesOf(scope), 1)
    /\ calls[1].Key \notin DOMAIN DutiesOf(scope)

\* ------------------------------------------------------------- C15
FoundPubKey(pubkey) == [err |-> "ok", val |-> pubkey]
PubKeyNotFound == [err |-> "not_found", val |-> 0]

\* The step of an attester Store's loop that stores (pubkey, d) leaves the pubkey
\* where a lookup by the payload's committee index, and one by committee index 0,
\* finds it; a PubKeyByAttestation call returns the pubkey recorded at its key, or
\* the not-found error when the key is absent, and it returns at once, with the
\* mutex free again and nothing but its own return changed.
LookupContract ==
    /\ \A pubkey \in PubKeys, d \in AttPayloads :
           (/\ store.pc = "loop" /\ store.duty.Type = DutyAttester
            /\ store'.pc = "loop" /\ StoreUnsignedData(pubkey, d))
           => \A c \in {d.Duty.CommitteeIndex, 0} :
                  PubKeyOf(DB', d.Data.Slot, c, d.Duty.ValidatorIndex)
                      = FoundPubKey(pubkey)
    /\ \A key \in PkKeys :
           PubKeyByAttestation(key.Slot, key.CommIdx, key.ValIdx) =>
               /\ lookup'.key = key
               /\ lookup'.ret = IF key \in DOMAIN attPubKeys
                                THEN FoundPubKey(attPubKeys[key])
                                ELSE PubKeyNotFound
               /\ mu = Unlocked /\ mu' = Unlocked
               /\ maps' = maps /\ queries' = queries /\ calls' = calls
               /\ store' = store /\ deadliner' = deadliner /\ shutdown' = shutdown

\* C15: after an attester payload (data slot s, committee index c, validator index
\* v, pubkey pk) is stored, and until its entries are evicted, PubKeyByAttestation
\* (s, c, v) and PubKeyByAttestation(s, 0, v) return pk; for a key that is not in
\* the pubkey map, never stored or evicted, the call returns the not-found error;
\* the call never suspends and changes no state of the store.
C15_PubKeyByAttestation == [][LookupContract]_vars

\* After a successful attester Store of a payload with committee index 1, the
\* lookup under committee index 0 returned the payload's pubkey.
C15_Witness ==
    /\ store.pc = "idle" /\ store.err = "ok"
    /\ lookup.key = [Slot |-> 1, CommIdx |-> 0, ValIdx |-> 1]
    /\ lookup.ret.err = "ok"
    /\ [Slot |-> 1, CommIdx |-> 1, ValIdx |-> 1] \in DOMAIN attPubKeys
    /\ lookup.ret.val = attPubKeys[[Slot |-> 1, CommIdx |-> 1, ValIdx |-> 1]]

\* ------------------------------------------------------------- C16
\* The places (slot record, position) where a slot index lists the key.
Places(index, key) ==
    {p \in UNION {{<<s, i>> : i \in DOMAIN index[s]} : s \in DOMAIN index} :
        index[p[1]][p[2]] = key}

\* The slot records of the attester index from which deleteDutyUnsafe reaches the
\* attestation data at aKey: those listing a pubkey key of aKey's slot and
\* committee index.
AttRecordsOf(aKey) ==
    {s \in DOMAIN attKeysBySlot :
        \E i \in DOMAIN attKeysBySlot[s] :
            /\ attKeysBySlot[s][i].Slot = aKey.Slot
            /\ attKeysBySlot[s][i].CommIdx = aKey.CommIdx}

\* C16: with the mutex free, every attester pubkey entry, aggregator entry and
\* sync-contribution entry is listed at exactly one place of its kind's slot index,
\* and every attester payload entry is reached from exactly one slot record of the
\* attester index.
C16_IndexInvariant ==
    mu = Unlocked =>
        /\ \A k \in DOMAIN attPubKeys : Cardinality(Places(attKeysBySlot, k)) = 1
        /\ \A a \in DOMAIN attDuties : Cardinality(AttRecordsOf(a)) = 1
        /\ \A k \in DOMAIN aggDuties : Cardinality(Places(aggKeysBySlot, k)) = 1
        /\ \A k \in DOMAIN contribDuties : Cardinality(Places(contribKeysBySlot, k)) = 1

\* ------------------------------------------------------------- C17
\* The expiration events that the step's drain received and deleted without error.
Processed ==
    IF store.pc = "loop" /\ store'.pc = "idle" /\ Len(dlC') < Len(dlC)
    THEN {dlC[i] : i \in 1 .. (Len(dlC) - Len(dlC') - (IF store'.err = "ok" THEN 0 ELSE 1))}
    ELSE {}

\* C17: once the drain has processed the expiration event of duty d, no payload
\* entry that a Store call for d inserted is left in its map, whatever slot the
\* payload gave the entry's key.
C17_EvictedWithDuty ==
    [][\A d \in Processed :
           d.Type = scope =>
               \A p \in insertedBy :
                   p[2] = d.Slot => p[1] \notin DOMAIN DutiesOf(scope)']_vars

\* ------------------------------------------------------------- C18
\* The step is the return of a Store call.
StoreReturns ==
    \/ store.pc = "loop" /\ store'.pc = "idle"
    \/ \E duty \in Duties, n \in 0 .. MaxBatch : Store(duty, n) /\ store'.pc = "idle"

\* The slot records and proposals that the deletion of the duty removes are absent.
Applied(duty, db) ==
    CASE duty.Type = DutyProposer -> duty.Slot \notin DOMAIN db.proDuties
      [] duty.Type = DutyAttester -> duty.Slot \notin DOMAIN db.attKeysBySlot
      [] duty.Type = DutyAggregator -> duty.Slot \notin DOMAIN db.aggKeysBySlot
      [] duty.Type = DutySyncContribution -> duty.Slot \notin DOMAIN db.contribKeysBySlot
      [] OTHER -> FALSE

\* C18: when a Store call returns success, every expiration event that was pending
\* in the deadliner's channel has been received and its duty's deletion applied.
DrainedOnSuccess ==
    (StoreReturns /\ store'.err = "ok") =>
        /\ dlC' = <<>>
        /\ \A i \in DOMAIN dlC : Applied(dlC[i], DB')

C18_DrainedOnSuccess == [][DrainedOnSuccess]_vars

\* The only call made is a Store that returned success, and the duty it added has
\* expired and left the channel: that Store's drain received it.
C18_Witness ==
    /\ ops = 1 /\ store.pc = "idle" /\ store.err = "ok"
    /\ now = 1 /\ dlAdded = {} /\ dlC = <<>>

\* C18 as stated: every return of a Store call, whatever its outcome, leaves the
\* deadliner's channel empty.
C18_DrainedOnEveryReturn == [][StoreReturns => dlC' = <<>>]_vars

\* ------------------------------------------------------------- C19
\* C19: in every state with the mutex free, no waiter list holds a waiter that is
\* not cancelled and whose key is present in the payload map of its kind.
C19_NoStarvedWaiter ==
    mu = Unlocked =>
        \A id \in DOMAIN calls :
            (Queued(QueriesOf(scope), id) /\ ~calls[id].Cancel)
                => calls[id].Key \notin DOMAIN DutiesOf(scope)

\* ------------------------------------------------------------- C20
\* C20: when a Store call returns an error, every payload map, the pubkey map and
\* every slot index is as it was when the call took the mutex.
C20_AtomicOnError ==
    [][(store.pc = "loop" /\ store'.pc = "idle" /\ store'.err # "ok")
           => maps' = store.mapsBefore]_vars

\* ------------------------------------------------------------- C21
\* C21: a Store call for one of the four payload kinds that the deadliner accepted,
\* that is well-formed and whose payloads have all been stored without a clash
\* returns ok, whatever calls were made before it and whatever expiration events
\* the deadliner has pending.
C21_NoSpuriousFailure ==
    [][(store.pc = "loop" /\ store.left = 0 /\ store'.pc = "idle")
           => store'.err = "ok"]_vars

====
